---------------------------- MODULE Spec2Model ----------------------------
(***************************************************************************)
(* A model of the Vitosha parking pipeline (scripts/*.py): the encoding /  *)
(* CRS normalizer (cadaster_to_geojson.py), the clipper / column selector  *)
(* (clip_and_clean_vitosha.py), the parking analytics                      *)
(* (vitosha_analytics.py), the street slots (streetParkingPlace.py) and    *)
(* the deficit grid of the heat map (map_generator.py).                    *)
(*                                                                         *)
(* Text is a sequence of Unicode code points, a byte string a sequence of  *)
(* numbers 0..255.                                                         *)
(***************************************************************************)
EXTENDS Integers, Sequences, FiniteSets, TLC

VARIABLES
    text, verdict,             \* the mojibake heuristic: its input and answer
    cands, rd,                 \* _read_with_fallback: what each encoding gives, the loop's state
    geo, crsOut,               \* the CRS step of convert_and_merge: the frame read, the outcome
    path, layer,               \* _layer_key_from_path: its argument and outcome
    val, fixedVal,             \* _hard_fix_cyrillic.attempt: its argument and outcome
    unitsFile, fixOut,         \* _hard_fix_cyrillic: the file before, and the pass's outcome
    shp_files, disk, run,      \* convert_and_merge: the listing, the files of etl_dir, its state
    raw, cleaned,              \* _clip_clean_save: the raw layer, and the outcome
    units, stats,              \* compute_parcel_stats: the units layer, and the statistics
    layers, enriched,          \* main of vitosha_analytics: the two layers read, the layer written
    areaArg, places,           \* needed_places: its argument and result
    cadnumArg, parcel,         \* base_cadnum: its argument and result
    edge, street,              \* streetParkingPlace: one street edge, and what the script keeps of it
    site, heat                 \* map_generator: the buildings and cars read, the deficits and the grid

mojiVars == <<text, verdict>>
readVars == <<cands, rd>>
crsVars == <<geo, crsOut>>
layerVars == <<path, layer>>
attemptVars == <<val, fixedVal>>
fixVars == <<unitsFile, fixOut>>
runVars == <<shp_files, disk, run>>
clipVars == <<raw, cleaned>>
statsVars == <<units, stats>>
mainVars == <<layers, enriched>>
placesVars == <<areaArg, places>>
cadVars == <<cadnumArg, parcel>>
streetVars == <<edge, street>>
mapVars == <<site, heat>>
\* the stages after the parcel statistics
downstreamVars == <<mainVars, placesVars, cadVars, streetVars, mapVars>>
vars ==
    <<text, verdict, cands, rd, geo, crsOut, path, layer, val, fixedVal, unitsFile, fixOut,
      shp_files, disk, run, raw, cleaned, units, stats, layers, enriched, areaArg, places,
      cadnumArg, parcel, edge, street, site, heat>>

\* the variables of the operations a specification does not run
ReadIdle == cands = <<>> /\ rd = <<>>
CrsIdle == geo = <<>> /\ crsOut = <<>>
LayerIdle == path = <<>> /\ layer = <<>>
AttemptIdle == val = <<>> /\ fixedVal = <<>>
FixIdle == unitsFile = <<>> /\ fixOut = <<>>
RunIdle == shp_files = <<>> /\ disk = <<>> /\ run = <<>>
ClipIdle == raw = <<>> /\ cleaned = <<>>
StatsIdle == units = <<>> /\ stats = <<>>
MainIdle == layers = <<>> /\ enriched = <<>>
PlacesIdle == areaArg = <<>> /\ places = <<>>
CadIdle == cadnumArg = <<>> /\ parcel = <<>>
StreetIdle == edge = <<>> /\ street = <<>>
MapIdle == site = <<>> /\ heat = <<>>
DownstreamIdle == MainIdle /\ PlacesIdle /\ CadIdle /\ StreetIdle /\ MapIdle

Min(a, b) == IF a <= b THEN a ELSE b
Max(a, b) == IF a >= b THEN a ELSE b

\* n copies of the character c
Rep(c, n) == [i \in 1..n |-> c]

-----------------------------------------------------------------------------
(* The mojibake heuristic                                                  *)

\* set("ÐÑðñŽžŒœ�¿½") as code points
BadChars == {208, 209, 240, 241, 381, 382, 338, 339, 65533, 191, 189}

\* text[:40]
SampleWindow == 40
\* sum(...) > 3
MarkerLimit == 3

\* s[:n]
Prefix(s, n) == SubSeq(s, 1, Min(n, Len(s)))

\* sum(c in bad for c in s)
RECURSIVE SumBad(_)
SumBad(s) ==
    IF s = <<>> THEN 0
    ELSE (IF Head(s) \in BadChars THEN 1 ELSE 0) + SumBad(Tail(s))

\* mutant: the whole text is counted, not its first 40 characters
LooksMojibakeWholeText(t) == t # <<>> /\ SumBad(t) > MarkerLimit

\* _looks_mojibake: `text and sum(c in bad for c in text[:40]) > 3`, as a truth value
LooksMojibake(t) == t # <<>> /\ SumBad(Prefix(t, SampleWindow)) > MarkerLimit

\* _hard_fix_cyrillic.looks_bad: `s and sum(c in bad for c in s[:40]) > 3`
LooksBad(s) == s # <<>> /\ SumBad(Prefix(s, SampleWindow)) > MarkerLimit

\* Bounds of the texts the heuristic is run on: a run of clean characters, a
\* run of markers, a second clean run and a second run of markers.
MaxLead == 40
MaxRun == 5
MaxGap == 2
CleanChars == {97, 1046}

MojiTexts ==
    { Rep(c, a) \o Rep(m, b) \o Rep(c, g) \o Rep(m, d) :
        <<c, m, a, b, g, d>> \in
            CleanChars \X BadChars \X (0..MaxLead) \X (0..MaxRun) \X (0..MaxGap) \X (0..MaxRun) }

MojiIdle == text = <<>> /\ verdict = [by |-> "nobody", bad |-> FALSE]

MojiInit ==
    /\ text \in MojiTexts
    /\ verdict = [by |-> "nobody", bad |-> FALSE]
    /\ ReadIdle /\ CrsIdle /\ LayerIdle /\ AttemptIdle /\ FixIdle /\ RunIdle /\ ClipIdle /\ StatsIdle
    /\ DownstreamIdle

\* _read_with_fallback asks _looks_mojibake about a sample
JudgeSample ==
    /\ verdict.by = "nobody"
    /\ verdict' = [by |-> "_looks_mojibake", bad |-> LooksMojibake(text)]
    /\ UNCHANGED <<text, readVars, crsVars, layerVars, attemptVars, fixVars, runVars, clipVars, statsVars,
                   downstreamVars>>

\* _hard_fix_cyrillic asks looks_bad about a value
JudgeValue ==
    /\ verdict.by = "nobody"
    /\ verdict' = [by |-> "looks_bad", bad |-> LooksBad(text)]
    /\ UNCHANGED <<text, readVars, crsVars, layerVars, attemptVars, fixVars, runVars, clipVars, statsVars,
                   downstreamVars>>

MojiNext == JudgeSample \/ JudgeValue

SpecMoji == MojiInit /\ [][MojiNext]_vars

\* the markers among the first 40 characters, counted by position
MarkersInWindow(t) ==
    Cardinality({i \in 1..Len(t) : i <= 40 /\ t[i] \in BadChars})

\* C3: both copies of the heuristic answer "corrupted" exactly when 4 or more
\* of the first 40 characters are corruption markers: at most 3 is clean,
\* markers after position 40 never count, and the empty text is clean.
C3_HeuristicCountsFirst40 ==
    verdict.by # "nobody" =>
        /\ verdict.bad = (MarkersInWindow(text) >= 4)
        /\ (text = <<>> => ~verdict.bad)

\* a text with exactly 3 markers among its first 40 characters and more after
\* them has been judged
C3_Witness ==
    /\ verdict.by # "nobody"
    /\ MarkersInWindow(text) = 3
    /\ Len(text) > 40
    /\ SumBad(text) > 3
    /\ ~verdict.bad

-----------------------------------------------------------------------------
(* _read_with_fallback                                                     *)

\* Python's None in a cell or a sample: no text
NoneVal == <<-1>>

\* ENCODINGS = [None, "cp1251", "cp1250", "latin1"]; None is the default, utf-8
ENCODINGS == <<"utf-8", "cp1251", "cp1250", "latin1">>

\* texts of the cells
CleanText == <<1046, 1080, 1083>>
EmptyText == <<>>
Bad4Text == <<208, 150, 208, 184, 209, 137, 208, 181>>
Bad3Text == <<208, 150, 208, 184, 97, 209>>

Col(n, v) == [name |-> n, vals |-> v]

\* The text (object) columns gpd.read_file may give for one encoding.
NoTextCols == <<>>
AllNull == <<Col("apptype", <<NoneVal, NoneVal>>)>>
CleanFirst == <<Col("apptype", <<CleanText, Bad4Text>>)>>
BadFirst == <<Col("apptype", <<Bad4Text, CleanText>>)>>
NullColThenBad ==
    <<Col("strename", <<NoneVal, NoneVal>>), Col("apptype", <<NoneVal, Bad4Text>>)>>
NullThenClean ==
    <<Col("strename", <<NoneVal, CleanText>>), Col("apptype", <<Bad4Text, Bad4Text>>)>>
EmptyFirst == <<Col("apptype", <<EmptyText, Bad4Text>>)>>
ThreeMarkers == <<Col("apptype", <<Bad3Text, Bad3Text>>)>>

ParsedTables ==
    {NoTextCols, AllNull, CleanFirst, BadFirst, NullColThenBad, NullThenClean,
     EmptyFirst, ThreeMarkers}

\* What gpd.read_file(path, encoding=enc) does for one candidate: it raises
\* (err names the exception) or gives a frame with these text columns.
Failed(e) == [ok |-> FALSE, err |-> e, cols |-> <<>>]
Parsed(t) == [ok |-> TRUE, err |-> "", cols |-> t]

OutcomesOf(enc) == {Failed("parse error under " \o enc)} \cup {Parsed(t) : t \in ParsedTables}

\* gdf[col].dropna().astype(str).head(1): the first non-null value, or nothing
RECURSIVE DropNaHead(_)
DropNaHead(vals) ==
    IF vals = <<>> THEN <<>>
    ELSE IF Head(vals) # NoneVal THEN <<Head(vals)>>
    ELSE DropNaHead(Tail(vals))

\* lines 90-95: the first non-null value of the first text column that has one
RECURSIVE SampleOf(_)
SampleOf(cols) ==
    IF cols = <<>> THEN NoneVal
    ELSE IF DropNaHead(Head(cols).vals) # <<>> THEN DropNaHead(Head(cols).vals)[1]
    ELSE SampleOf(Tail(cols))

\* `if sample and _looks_mojibake(sample)` (line 96)
SampleRejected(cols) ==
    LET sample == SampleOf(cols)
    IN  sample # NoneVal /\ sample # <<>> /\ LooksMojibake(sample)

NoErr == "None"

ReadStart ==
    [i |-> 1, last_err |-> NoErr, tried |-> <<>>, status |-> "loop",
     enc |-> "", cols |-> <<>>, raised |-> ""]

\* mutant: a corrupted decoding is accepted (the heuristic is not consulted)
ReadStepNoCheck(cs, st) ==
    IF st.i > Len(ENCODINGS)
    THEN [st EXCEPT !.status = "raised",
                    !.raised = IF st.last_err = NoErr THEN "TypeError" ELSE st.last_err]
    ELSE IF ~cs[st.i].ok
         THEN [st EXCEPT !.i = st.i + 1, !.last_err = cs[st.i].err,
                         !.tried = Append(st.tried, ENCODINGS[st.i])]
         ELSE [st EXCEPT !.status = "returned", !.enc = ENCODINGS[st.i],
                         !.cols = cs[st.i].cols,
                         !.tried = Append(st.tried, ENCODINGS[st.i])]

\* One pass of `for enc in ENCODINGS` (lines 82-100), or, the list exhausted,
\* the loop's else: `raise last_err` (line 102).  With last_err still None,
\* `raise None` is a TypeError.
ReadStep(cs, st) ==
    IF st.i > Len(ENCODINGS)
    THEN [st EXCEPT !.status = "raised",
                    !.raised = IF st.last_err = NoErr THEN "TypeError" ELSE st.last_err]
    ELSE IF ~cs[st.i].ok
         THEN [st EXCEPT !.i = st.i + 1, !.last_err = cs[st.i].err,
                         !.tried = Append(st.tried, ENCODINGS[st.i])]
         ELSE IF SampleRejected(cs[st.i].cols)
              THEN [st EXCEPT !.i = st.i + 1,
                              !.tried = Append(st.tried, ENCODINGS[st.i])]
              ELSE [st EXCEPT !.status = "returned", !.enc = ENCODINGS[st.i],
                              !.cols = cs[st.i].cols,
                              !.tried = Append(st.tried, ENCODINGS[st.i])]

RECURSIVE ReadLoop(_, _)
ReadLoop(cs, st) == IF st.status # "loop" THEN st ELSE ReadLoop(cs, ReadStep(cs, st))

\* _read_with_fallback(path), path giving cs[i] under ENCODINGS[i]
ReadWithFallback(cs) == ReadLoop(cs, ReadStart)

ReadInit ==
    /\ cands \in [1..Len(ENCODINGS) -> UNION {OutcomesOf(ENCODINGS[i]) : i \in 1..Len(ENCODINGS)}]
    /\ \A i \in 1..Len(ENCODINGS) : cands[i] \in OutcomesOf(ENCODINGS[i])
    /\ rd = ReadStart
    /\ MojiIdle /\ CrsIdle /\ LayerIdle /\ AttemptIdle /\ FixIdle /\ RunIdle /\ ClipIdle /\ StatsIdle
    /\ DownstreamIdle

\* the loop tries the next candidate encoding
TryEncoding ==
    /\ rd.status = "loop"
    /\ rd.i <= Len(ENCODINGS)
    /\ rd' = ReadStep(cands, rd)
    /\ UNCHANGED <<cands, mojiVars, crsVars, layerVars, attemptVars, fixVars, runVars, clipVars, statsVars,
                   downstreamVars>>

\* every candidate was tried and none accepted: the loop's else
Exhausted ==
    /\ rd.status = "loop"
    /\ rd.i > Len(ENCODINGS)
    /\ rd' = ReadStep(cands, rd)
    /\ UNCHANGED <<cands, mojiVars, crsVars, layerVars, attemptVars, fixVars, runVars, clipVars, statsVars,
                   downstreamVars>>

ReadNext == TryEncoding \/ Exhausted

SpecRead == ReadInit /\ [][ReadNext]_vars

\* the first non-null value of the first text column that has one, by position
FirstTextSample(cols) ==
    LET has(c) == {r \in 1..Len(cols[c].vals) : cols[c].vals[r] # NoneVal}
        withVal == {c \in 1..Len(cols) : has(c) # {}}
    IN  IF withVal = {} THEN NoneVal
        ELSE LET c == CHOOSE x \in withVal : \A y \in withVal : x <= y
                 r == CHOOSE x \in has(c) : \A y \in has(c) : x <= y
             IN  cols[c].vals[r]

\* a candidate's outcome is not accepted: it failed to parse, or its sample
\* trips the heuristic
NotAccepted(o) ==
    \/ ~o.ok
    \/ /\ FirstTextSample(o.cols) # NoneVal
       /\ MarkersInWindow(FirstTextSample(o.cols)) >= 4

FailedCands == {i \in 1..Len(ENCODINGS) : ~cands[i].ok}

\* C1: when no candidate is accepted the operation fails, and the error it
\* fails with is the last underlying parse error.
C1_ExhaustedCarriesLastParseError ==
    /\ (rd.status = "returned" => \E i \in 1..Len(ENCODINGS) : ~NotAccepted(cands[i]))
    /\ (rd.status = "raised" =>
            /\ \A i \in 1..Len(ENCODINGS) : NotAccepted(cands[i])
            /\ FailedCands # {}
            /\ \E i \in FailedCands :
                  /\ \A j \in FailedCands : j <= i
                  /\ rd.raised = cands[i].err)

\* C2: the candidates are tried in the order utf-8, cp1251, cp1250, latin1;
\* the frame returned is that of the first candidate that parses and is not
\* judged corrupted, no candidate after it is tried, and its sample (if it
\* has one) does not trip the heuristic.
C2_FirstAcceptedInOrder ==
    /\ Len(rd.tried) <= Len(ENCODINGS)
    /\ rd.tried = SubSeq(ENCODINGS, 1, Len(rd.tried))
    /\ (rd.status = "returned" =>
            LET k == Len(rd.tried)
            IN  /\ k >= 1
                /\ rd.enc = ENCODINGS[k]
                /\ rd.cols = cands[k].cols
                /\ ~NotAccepted(cands[k])
                /\ \A j \in 1..(k - 1) : NotAccepted(cands[j])
                /\ \/ FirstTextSample(rd.cols) = NoneVal
                   \/ MarkersInWindow(FirstTextSample(rd.cols)) <= 3)

\* utf-8 failed to parse, cp1251 parsed but looked corrupted, and cp1250 was
\* accepted on a sample taken after a null cell
C2_Witness ==
    /\ rd.status = "returned"
    /\ rd.enc = "cp1250"
    /\ ~cands[1].ok
    /\ cands[2].ok
    /\ cands[3].cols = NullThenClean
    /\ rd.tried = <<"utf-8", "cp1251", "cp1250">>

-----------------------------------------------------------------------------
(* The CRS step of convert_and_merge                                       *)

TARGET_CRS == "EPSG:4326"
FALLBACK_CRS == "EPSG:7801"
NoCrs == "None"

\* the envelope of _guess_bgs2005
X_LO == 250000
X_HI == 450000
Y_LO == 4700000
Y_HI == 4900000

\* The geometry side of a frame: its declared CRS (NoCrs: none), whether it
\* has no rows, the centroid of its first geometry in the coordinates of the
\* file, and the reprojections applied to it, each <<from, to>>.
Geo(c, e, x, y) == [crs |-> c, empty |-> e, x |-> x, y |-> y, reproj |-> <<>>]

\* mutant: the envelope's edges belong to it
GuessBgs2005Closed(g) ==
    IF g.empty THEN NoCrs
    ELSE IF X_LO <= g.x /\ g.x <= X_HI /\ Y_LO <= g.y /\ g.y <= Y_HI THEN FALLBACK_CRS
    ELSE NoCrs

\* _guess_bgs2005
GuessBgs2005(g) ==
    IF g.empty THEN NoCrs
    ELSE IF X_LO < g.x /\ g.x < X_HI /\ Y_LO < g.y /\ g.y < Y_HI THEN FALLBACK_CRS
    ELSE NoCrs

\* gdf.to_crs(TARGET_CRS): the coordinates are transformed by the library
ToCrs(g, to) == [g EXCEPT !.crs = to, !.reproj = Append(g.reproj, <<g.crs, to>>)]

\* lines 184-186: reproject unless the CRS is the target already
Reproject(g) == IF g.crs # TARGET_CRS THEN ToCrs(g, TARGET_CRS) ELSE g

\* lines 179-186 of convert_and_merge
CrsStep(g) ==
    IF g.crs = NoCrs
    THEN IF GuessBgs2005(g) = NoCrs
         THEN [status |-> "raised", err |-> "ValueError: unknown CRS", gdf |-> g]
         ELSE [status |-> "ok", err |-> "",
               gdf |-> Reproject([g EXCEPT !.crs = GuessBgs2005(g)])]
    ELSE [status |-> "ok", err |-> "", gdf |-> Reproject(g)]

\* How far around the envelope's edges the centroids are drawn.
EnvelopeMargin == 1

AroundEdges(lo, hi) ==
    ((lo - EnvelopeMargin)..(lo + EnvelopeMargin))
        \cup ((hi - EnvelopeMargin)..(hi + EnvelopeMargin)) \cup {23, 42}

DeclaredCrs == {NoCrs, TARGET_CRS, FALLBACK_CRS, "EPSG:32635"}

Geos ==
    {Geo(c, FALSE, x, y) : <<c, x, y>> \in DeclaredCrs \X AroundEdges(X_LO, X_HI) \X AroundEdges(Y_LO, Y_HI)}
        \cup {Geo(c, TRUE, 0, 0) : c \in DeclaredCrs}

CrsInit ==
    /\ geo \in Geos
    /\ crsOut = [status |-> "pending", err |-> "", gdf |-> geo]
    /\ MojiIdle /\ ReadIdle /\ LayerIdle /\ AttemptIdle /\ FixIdle /\ RunIdle /\ ClipIdle /\ StatsIdle
    /\ DownstreamIdle

\* the CRS step runs on the frame that was read
ResolveCrs ==
    /\ crsOut.status = "pending"
    /\ crsOut' = CrsStep(geo)
    /\ UNCHANGED <<geo, mojiVars, readVars, layerVars, attemptVars, fixVars, runVars, clipVars, statsVars,
                   downstreamVars>>

CrsNext == ResolveCrs

SpecCrs == CrsInit /\ [][CrsNext]_vars

InEnvelope(g) ==
    /\ ~g.empty
    /\ g.x > 250000 /\ g.x < 450000
    /\ g.y > 4700000 /\ g.y < 4900000

\* C4: a frame that passes the CRS step carries EPSG:4326; a frame without a
\* CRS passes only with its first centroid strictly inside the envelope, is
\* then taken as EPSG:7801, and otherwise the step fails with the unknown-CRS
\* error; a frame whose declared or assigned CRS is not the target is
\* reprojected from it, and one already in the target is left alone.
C4_PassedFramesCarryTarget ==
    crsOut.status # "pending" =>
        /\ (crsOut.status = "ok" => crsOut.gdf.crs = "EPSG:4326")
        /\ (geo.crs = NoCrs /\ InEnvelope(geo) =>
                /\ crsOut.status = "ok"
                /\ crsOut.gdf.reproj = << <<"EPSG:7801", "EPSG:4326">> >>)
        /\ (geo.crs = NoCrs /\ ~InEnvelope(geo) =>
                /\ crsOut.status = "raised"
                /\ crsOut.err = "ValueError: unknown CRS")
        /\ (geo.crs \notin {NoCrs, "EPSG:4326"} =>
                /\ crsOut.status = "ok"
                /\ crsOut.gdf.reproj = << <<geo.crs, "EPSG:4326">> >>)
        /\ (geo.crs = "EPSG:4326" =>
                /\ crsOut.status = "ok"
                /\ crsOut.gdf.reproj = <<>>)

\* a frame without CRS whose first centroid lies just inside the envelope was
\* taken as EPSG:7801 and reprojected
C4_Witness ==
    /\ crsOut.status = "ok"
    /\ geo.crs = NoCrs
    /\ geo.x = 250001 /\ geo.y = 4899999
    /\ crsOut.gdf.crs = "EPSG:4326"

-----------------------------------------------------------------------------
(* _layer_key_from_path                                                    *)

\* A directory or file name is the sequence of its characters.
K_pozemleni_imoti == <<"p", "o", "z", "e", "m", "l", "e", "n", "i", "_", "i", "m", "o", "t", "i">>
K_samostoyatelni_obekti == <<"s", "a", "m", "o", "s", "t", "o", "y", "a", "t", "e", "l", "n", "i", "_", "o", "b", "e", "k", "t", "i">>
K_sgradi == <<"s", "g", "r", "a", "d", "i">>

\* the keys of LAYER_MAP, in the dictionary's order
LAYER_KEYS == <<K_pozemleni_imoti, K_samostoyatelni_obekti, K_sgradi>>

\* `key in name` on str: name has key at some offset
RECURSIVE StrIn(_, _)
StrIn(key, name) ==
    IF Len(key) > Len(name) THEN FALSE
    ELSE IF SubSeq(name, 1, Len(key)) = key THEN TRUE
    ELSE StrIn(key, Tail(name))

\* `for key in LAYER_MAP: if key in name: return key` from the i-th key on;
\* <<>> when no key is in the name
RECURSIVE KeyIn(_, _)
KeyIn(name, i) ==
    IF i > Len(LAYER_KEYS) THEN <<>>
    ELSE IF StrIn(LAYER_KEYS[i], name) THEN LAYER_KEYS[i]
    ELSE KeyIn(name, i + 1)

\* `for parent in path.parents` (lines 109-112): the nearest directory first
RECURSIVE KeyInParents(_)
KeyInParents(names) ==
    IF names = <<>> THEN <<>>
    ELSE IF KeyIn(Head(names), 1) # <<>> THEN KeyIn(Head(names), 1)
    ELSE KeyInParents(Tail(names))

\* the names of path.parents: the directories from the nearest up, then the
\* root, whose name is empty
ParentNames(p) == Append(p.dirs, <<>>)

Classified(k) == [status |-> "ok", key |-> k, err |-> ""]
Unclassified == [status |-> "raised", key |-> <<>>, err |-> "ValueError: no layer"]

\* mutant: the file stem is looked at before the directories
LayerKeyStemFirst(p) ==
    IF KeyIn(p.stem, 1) # <<>> THEN Classified(KeyIn(p.stem, 1))
    ELSE IF KeyInParents(ParentNames(p)) # <<>> THEN Classified(KeyInParents(ParentNames(p)))
    ELSE Unclassified

\* _layer_key_from_path
LayerKeyFromPath(p) ==
    IF KeyInParents(ParentNames(p)) # <<>> THEN Classified(KeyInParents(ParentNames(p)))
    ELSE IF KeyIn(p.stem, 1) # <<>> THEN Classified(KeyIn(p.stem, 1))
    ELSE Unclassified

\* names of directories and files
N_downloads == <<"d", "o", "w", "n", "l", "o", "a", "d", "s">>
N_prefix == <<"6", "8", "1", "3", "4", "_">>
N_suffix == <<"_", "2", "0", "2", "4", "_">>
N_sgrad == <<"s", "g", "r", "a", "d">>

Names ==
    {N_downloads, N_sgrad, K_sgradi, K_pozemleni_imoti, K_samostoyatelni_obekti,
     N_prefix \o K_sgradi \o N_suffix,
     K_sgradi \o N_suffix \o K_pozemleni_imoti}

\* How many directories a path has above its file.
MaxDepth == 2

RECURSIVE SeqsUpTo(_, _)
SeqsUpTo(S, n) ==
    IF n = 0 THEN {<<>>}
    ELSE SeqsUpTo(S, n - 1) \cup {Append(q, x) : <<q, x>> \in SeqsUpTo(S, n - 1) \X S}

Paths == {[dirs |-> d, stem |-> n] : <<d, n>> \in SeqsUpTo(Names, MaxDepth) \X Names}

LayerInit ==
    /\ path \in Paths
    /\ layer = [status |-> "pending", key |-> <<>>, err |-> ""]
    /\ MojiIdle /\ ReadIdle /\ CrsIdle /\ AttemptIdle /\ FixIdle /\ RunIdle /\ ClipIdle /\ StatsIdle
    /\ DownstreamIdle

\* the layer of the file is looked up
ClassifyLayer ==
    /\ layer.status = "pending"
    /\ layer' = LayerKeyFromPath(path)
    /\ UNCHANGED <<path, mojiVars, readVars, crsVars, attemptVars, fixVars, runVars, clipVars, statsVars,
                   downstreamVars>>

LayerNext == ClassifyLayer

SpecLayer == LayerInit /\ [][LayerNext]_vars

\* name holds key at some position
HasKey(name, key) ==
    \E i \in 1..Len(name) :
        i + Len(key) - 1 <= Len(name) /\ SubSeq(name, i, i + Len(key) - 1) = key

KeysOf(name) == {i \in 1..Len(LAYER_KEYS) : HasKey(name, LAYER_KEYS[i])}

Least(S) == CHOOSE x \in S : \A y \in S : x <= y

\* C5: if some ancestor directory name holds a layer keyword, the kind is the
\* first keyword (in LAYER_MAP's order) of the nearest such directory, whatever
\* the file stem holds; otherwise it is the first keyword the stem holds; and a
\* path with no keyword anywhere fails with the unclassified-layer error.
C5_DirectoriesBeforeStem ==
    layer.status # "pending" =>
        LET keyDirs == {i \in 1..Len(path.dirs) : KeysOf(path.dirs[i]) # {}}
        IN  IF keyDirs # {}
            THEN /\ layer.status = "ok"
                 /\ layer.key = LAYER_KEYS[Least(KeysOf(path.dirs[Least(keyDirs)]))]
            ELSE IF KeysOf(path.stem) # {}
            THEN /\ layer.status = "ok"
                 /\ layer.key = LAYER_KEYS[Least(KeysOf(path.stem))]
            ELSE /\ layer.status = "raised"
                 /\ layer.err = "ValueError: no layer"
                 /\ layer.key = <<>>

\* a building file (stem "sgradi") under a land-parcel directory was
\* classified by the directory
C5_Witness ==
    /\ layer.status = "ok"
    /\ path.stem = K_sgradi
    /\ Len(path.dirs) = 2
    /\ path.dirs[1] = N_downloads
    /\ path.dirs[2] = K_pozemleni_imoti
    /\ layer.key = K_pozemleni_imoti

-----------------------------------------------------------------------------
(* The codecs of val.encode(enc, "ignore").decode(dec, "ignore")           *)

\* cp1251: the characters of the bytes 128..255; -1 where the byte (0x98)
\* has none
CP1251_HIGH == <<
    1026, 1027, 8218, 1107, 8222, 8230, 8224, 8225,
    8364, 8240, 1033, 8249, 1034, 1036, 1035, 1039,
    1106, 8216, 8217, 8220, 8221, 8226, 8211, 8212,
    -1, 8482, 1113, 8250, 1114, 1116, 1115, 1119,
    160, 1038, 1118, 1032, 164, 1168, 166, 167,
    1025, 169, 1028, 171, 172, 173, 174, 1031,
    176, 177, 1030, 1110, 1169, 181, 182, 183,
    1105, 8470, 1108, 187, 1112, 1029, 1109, 1111,
    1040, 1041, 1042, 1043, 1044, 1045, 1046, 1047,
    1048, 1049, 1050, 1051, 1052, 1053, 1054, 1055,
    1056, 1057, 1058, 1059, 1060, 1061, 1062, 1063,
    1064, 1065, 1066, 1067, 1068, 1069, 1070, 1071,
    1072, 1073, 1074, 1075, 1076, 1077, 1078, 1079,
    1080, 1081, 1082, 1083, 1084, 1085, 1086, 1087,
    1088, 1089, 1090, 1091, 1092, 1093, 1094, 1095,
    1096, 1097, 1098, 1099, 1100, 1101, 1102, 1103 >>

\* the cp1251 byte of a character, or none
Cp1251Byte(c) ==
    IF c >= 0 /\ c < 128 THEN <<c>>
    ELSE IF \E b \in 1..128 : CP1251_HIGH[b] = c
         THEN <<127 + (CHOOSE b \in 1..128 : CP1251_HIGH[b] = c)>>
         ELSE <<>>

\* the utf-8 bytes of a character; a surrogate has none
Utf8Bytes(c) ==
    IF c < 128 THEN <<c>>
    ELSE IF c < 2048 THEN <<192 + (c \div 64), 128 + (c % 64)>>
    ELSE IF c >= 55296 /\ c <= 57343 THEN <<>>
    ELSE IF c < 65536
         THEN <<224 + (c \div 4096), 128 + ((c \div 64) % 64), 128 + (c % 64)>>
         ELSE <<240 + (c \div 262144), 128 + ((c \div 4096) % 64),
                128 + ((c \div 64) % 64), 128 + (c % 64)>>

\* the latin1 byte of a character, or none
Latin1Byte(c) == IF c >= 0 /\ c < 256 THEN <<c>> ELSE <<>>

\* str.encode(enc, "ignore"): a character the codec lacks is dropped
RECURSIVE Encode(_, _)
Encode(s, enc) ==
    IF s = <<>> THEN <<>>
    ELSE (CASE enc = "cp1251" -> Cp1251Byte(Head(s))
            [] enc = "utf-8" -> Utf8Bytes(Head(s))
            [] enc = "latin1" -> Latin1Byte(Head(s))) \o Encode(Tail(s), enc)

IsCont(b, i) == i <= Len(b) /\ b[i] >= 128 /\ b[i] <= 191
InRange(b, i, lo, hi) == i <= Len(b) /\ b[i] >= lo /\ b[i] <= hi

\* bytes.decode("utf-8", "ignore") from position i: an ill-formed sequence is
\* dropped up to the byte that breaks it, and decoding goes on from that byte
RECURSIVE Utf8Decode(_, _)
Utf8Decode(b, i) ==
    IF i > Len(b) THEN <<>>
    ELSE LET b0 == b[i] IN
         IF b0 < 128 THEN <<b0>> \o Utf8Decode(b, i + 1)
         ELSE IF b0 < 194 THEN Utf8Decode(b, i + 1)
         ELSE IF b0 < 224 THEN
              IF IsCont(b, i + 1)
              THEN <<(b0 - 192) * 64 + (b[i + 1] - 128)>> \o Utf8Decode(b, i + 2)
              ELSE Utf8Decode(b, i + 1)
         ELSE IF b0 < 240 THEN
              LET lo == IF b0 = 224 THEN 160 ELSE 128
                  hi == IF b0 = 237 THEN 159 ELSE 191
              IN  IF ~InRange(b, i + 1, lo, hi) THEN Utf8Decode(b, i + 1)
                  ELSE IF ~IsCont(b, i + 2) THEN Utf8Decode(b, i + 2)
                  ELSE <<(b0 - 224) * 4096 + (b[i + 1] - 128) * 64 + (b[i + 2] - 128)>>
                           \o Utf8Decode(b, i + 3)
         ELSE IF b0 < 245 THEN
              LET lo == IF b0 = 240 THEN 144 ELSE 128
                  hi == IF b0 = 244 THEN 143 ELSE 191
              IN  IF ~InRange(b, i + 1, lo, hi) THEN Utf8Decode(b, i + 1)
                  ELSE IF ~IsCont(b, i + 2) THEN Utf8Decode(b, i + 2)
                  ELSE IF ~IsCont(b, i + 3) THEN Utf8Decode(b, i + 3)
                  ELSE <<(b0 - 240) * 262144 + (b[i + 1] - 128) * 4096
                            + (b[i + 2] - 128) * 64 + (b[i + 3] - 128)>>
                           \o Utf8Decode(b, i + 4)
         ELSE Utf8Decode(b, i + 1)

\* the cp1251 character of a byte, or none
Cp1251Char(b) ==
    IF b < 128 THEN <<b>>
    ELSE IF CP1251_HIGH[b - 127] = -1 THEN <<>>
    ELSE <<CP1251_HIGH[b - 127]>>

RECURSIVE Cp1251Decode(_)
Cp1251Decode(b) == IF b = <<>> THEN <<>> ELSE Cp1251Char(Head(b)) \o Cp1251Decode(Tail(b))

\* bytes.decode(dec, "ignore"); latin1 gives every byte its own character
Decode(b, dec) ==
    CASE dec = "utf-8" -> Utf8Decode(b, 1)
      [] dec = "cp1251" -> Cp1251Decode(b)
      [] dec = "latin1" -> b

\* val.encode(enc, "ignore").decode(dec, "ignore") (line 141)
RoundTrip(s, enc, dec) == Decode(Encode(s, enc), dec)

-----------------------------------------------------------------------------
(* _hard_fix_cyrillic.attempt                                              *)

\* combos (lines 133-138)
COMBOS ==
    << <<"cp1251", "utf-8">>, <<"utf-8", "cp1251">>,
       <<"latin1", "utf-8">>, <<"utf-8", "latin1">> >>

\* the loop of attempt from the i-th combo on (lines 139-146)
RECURSIVE AttemptFrom(_, _, _)
AttemptFrom(s, combos, i) ==
    IF i > Len(combos) THEN s
    ELSE LET fixed == RoundTrip(s, combos[i][1], combos[i][2])
         IN  IF ~LooksBad(fixed) THEN fixed ELSE AttemptFrom(s, combos, i + 1)

\* mutant: the latin1 round trip is tried first
AttemptLatin1First(s) ==
    AttemptFrom(s, <<COMBOS[3], COMBOS[1], COMBOS[2], COMBOS[4]>>, 1)

\* attempt(val)
Attempt(s) == AttemptFrom(s, COMBOS, 1)

\* The values attempt is run on: up to MaxTokens pieces, each a character or
\* a pair that some decoding of a Cyrillic or marker character leaves.
MaxTokens == 4

Tokens == {<<97>>, <<1046>>, <<208>>, <<208, 150>>, <<1043, 1106>>}

RECURSIVE Flatten(_)
Flatten(q) == IF q = <<>> THEN <<>> ELSE Head(q) \o Flatten(Tail(q))

AttemptValues == {Flatten(q) : q \in SeqsUpTo(Tokens, MaxTokens)}

AttemptInit ==
    /\ val \in AttemptValues
    /\ fixedVal = [done |-> FALSE, out |-> <<>>]
    /\ MojiIdle /\ ReadIdle /\ CrsIdle /\ LayerIdle /\ FixIdle /\ RunIdle /\ ClipIdle /\ StatsIdle
    /\ DownstreamIdle

\* attempt runs on one value of a selected column
RepairValue ==
    /\ ~fixedVal.done
    /\ fixedVal' = [done |-> TRUE, out |-> Attempt(val)]
    /\ UNCHANGED <<val, mojiVars, readVars, crsVars, layerVars, fixVars, runVars, clipVars, statsVars,
                   downstreamVars>>

AttemptNext == RepairValue

SpecAttempt == AttemptInit /\ [][AttemptNext]_vars

\* the output of the k-th round trip of the fixed order
Trip(k) ==
    CASE k = 1 -> RoundTrip(val, "cp1251", "utf-8")
      [] k = 2 -> RoundTrip(val, "utf-8", "cp1251")
      [] k = 3 -> RoundTrip(val, "latin1", "utf-8")
      [] k = 4 -> RoundTrip(val, "utf-8", "latin1")

Qualifying == {k \in 1..4 : MarkersInWindow(Trip(k)) <= 3}

\* C8: the repair of a value gives the output of the first round trip, in the
\* order cp1251/utf-8, utf-8/cp1251, latin1/utf-8, utf-8/latin1, that does not
\* trip the heuristic, and the original value when none qualifies; it always
\* gives a value.
C8_FirstQualifyingRoundTrip ==
    fixedVal.done =>
        IF Qualifying = {} THEN fixedVal.out = val
        ELSE fixedVal.out = Trip(Least(Qualifying))

\* the first round trip of a value gave a text that trips the heuristic, and
\* the output of the second one was kept
C8_Witness ==
    /\ fixedVal.done
    /\ MarkersInWindow(Trip(1)) >= 4
    /\ fixedVal.out = Trip(2)
    /\ fixedVal.out # val

-----------------------------------------------------------------------------
(* _hard_fix_cyrillic                                                      *)

\* str(None)
NoneStr == <<78, 111, 110, 101>>

\* str(v), and the cells of gdf[col].astype(str)
Str(v) == IF v = NoneVal THEN NoneStr ELSE v

\* line 149: str(gdf[col].iloc[0]), or "" for a column without rows
FixSample(vals) == IF vals = <<>> THEN <<>> ELSE Str(vals[1])

\* line 151: gdf[col].astype(str).apply(attempt)
RepairAll(vals) == [r \in 1..Len(vals) |-> Attempt(Str(vals[r]))]

\* lines 148-151 for one text column; selected tells whether line 151 ran
FixColumn(c) ==
    IF LooksBad(FixSample(c.vals))
    THEN [name |-> c.name, vals |-> RepairAll(c.vals), selected |-> TRUE]
    ELSE [name |-> c.name, vals |-> c.vals, selected |-> FALSE]

\* A GeoJSON file: whether it exists, and the text columns of its frame.
File(t) == [exists |-> TRUE, cols |-> t]
NoFile == [exists |-> FALSE, cols |-> <<>>]

Plain(cols) == [c \in 1..Len(cols) |-> Col(cols[c].name, cols[c].vals)]

\* _hard_fix_cyrillic(path): the columns as line 153 writes them back, and
\* nothing at all for a path that does not exist (line 124)
HardFixCyrillic(f) ==
    IF ~f.exists THEN [ran |-> FALSE, cols |-> <<>>]
    ELSE [ran |-> TRUE, cols |-> [c \in 1..Len(f.cols) |-> FixColumn(f.cols[c])]]

\* The files the pass is run on: two text columns of up to MaxRows rows.
MaxRows == 2

FixColNames == <<"apptype", "strename">>
LatinMojibake == <<208, 150, 208, 184, 208, 187, 208, 184>>
DoubleMojibake == <<1043, 1106, 1043, 1106, 1043, 1106, 1043, 1106>>
FixCells == {NoneVal, CleanText, LatinMojibake, DoubleMojibake}

FixTables ==
    UNION { { [c \in 1..Len(FixColNames) |-> Col(FixColNames[c], cells[c])] :
                cells \in [1..Len(FixColNames) -> [1..n -> FixCells]] } : n \in 0..MaxRows }

FixInit ==
    /\ unitsFile \in {File(t) : t \in FixTables} \cup {NoFile}
    /\ fixOut = [done |-> FALSE, ran |-> FALSE, cols |-> <<>>]
    /\ MojiIdle /\ ReadIdle /\ CrsIdle /\ LayerIdle /\ AttemptIdle /\ RunIdle /\ ClipIdle /\ StatsIdle
    /\ DownstreamIdle

\* the pass runs on the file
HardFix ==
    /\ ~fixOut.done
    /\ fixOut' = [done |-> TRUE, ran |-> HardFixCyrillic(unitsFile).ran,
                  cols |-> HardFixCyrillic(unitsFile).cols]
    /\ UNCHANGED <<unitsFile, mojiVars, readVars, crsVars, layerVars, attemptVars, runVars, clipVars, statsVars,
                   downstreamVars>>

FixNext == HardFix

SpecFix == FixInit /\ [][FixNext]_vars

\* the first non-missing value of a column trips the heuristic
FirstPresentTrips(vals) ==
    LET present == {r \in 1..Len(vals) : vals[r] # NoneVal}
    IN  present # {} /\ MarkersInWindow(vals[Least(present)]) >= 4

\* C7: a text column is put through the round-trip repair if and only if its
\* first non-missing value trips the heuristic, also when missing values come
\* before it.
C7_SelectedByFirstPresentValue ==
    fixOut.done /\ fixOut.ran =>
        \A c \in 1..Len(unitsFile.cols) :
            fixOut.cols[c].selected <=> FirstPresentTrips(unitsFile.cols[c].vals)

\* the value itself trips the heuristic (a missing value does not)
ValueTrips(v) == v # NoneVal /\ MarkersInWindow(v) >= 4

\* C17: after the pass every value that did not itself trip the heuristic is
\* what it was before, in a column selected for repair as in any other; only
\* values that tripped the heuristic differ from their original.
C17_CleanValuesUntouched ==
    fixOut.done /\ fixOut.ran =>
        \A c \in 1..Len(unitsFile.cols) :
            \A r \in 1..Len(unitsFile.cols[c].vals) :
                ~ValueTrips(unitsFile.cols[c].vals[r]) =>
                    fixOut.cols[c].vals[r] = unitsFile.cols[c].vals[r]

-----------------------------------------------------------------------------
(* convert_and_merge                                                       *)

\* the values of LAYER_MAP, in the dictionary's order
LAYER_NAMES == <<"landparcels", "units", "buildings">>

\* A source file: its path, what each encoding gives, and its geometry side.
Shp(p, cs, g) == [path |-> p, cands |-> cs, geo |-> g]

\* pd.concat(frames, ignore_index=True) on the text columns: the columns in
\* the order they first appear, a frame without a column giving nulls
Rows(cols) == IF cols = <<>> THEN 0 ELSE Len(cols[1].vals)

HasCol(cols, n) == \E c \in 1..Len(cols) : cols[c].name = n

ColVals(cols, n) ==
    IF HasCol(cols, n)
    THEN cols[CHOOSE c \in 1..Len(cols) : cols[c].name = n].vals
    ELSE Rep(NoneVal, Rows(cols))

RECURSIVE NamesOf(_, _)
NamesOf(cols, seen) ==
    IF cols = <<>> THEN seen
    ELSE NamesOf(Tail(cols),
                 IF \E i \in 1..Len(seen) : seen[i] = Head(cols).name
                 THEN seen ELSE Append(seen, Head(cols).name))

RECURSIVE AllNames(_, _)
AllNames(frames, seen) ==
    IF frames = <<>> THEN seen ELSE AllNames(Tail(frames), NamesOf(Head(frames), seen))

RECURSIVE StackVals(_, _)
StackVals(frames, n) ==
    IF frames = <<>> THEN <<>> ELSE ColVals(Head(frames), n) \o StackVals(Tail(frames), n)

Concat(frames) ==
    LET names == AllNames(frames, <<>>)
    IN  [c \in 1..Len(names) |-> Col(names[c], StackVals(frames, names[c]))]

RunStart ==
    [pc |-> "start", idx |-> 1, buckets |-> [k \in 1..Len(LAYER_KEYS) |-> <<>>],
     copies |-> <<>>, written |-> {}, hardfix |-> FALSE, err |-> ""]

Abort(r, e) == [r EXCEPT !.pc = "aborted", !.err = e]

KeyIndex(key) == CHOOSE k \in 1..Len(LAYER_KEYS) : LAYER_KEYS[k] = key

\* mutant: a file that cannot be read is skipped and the run goes on
ProcessFileSkipping(f, r) ==
    LET got == ReadWithFallback(f.cands)
        crs == CrsStep(f.geo)
        key == LayerKeyFromPath(f.path)
        copied == [r EXCEPT !.copies = Append(r.copies, r.idx)]
    IN  IF got.status = "raised" THEN [r EXCEPT !.idx = r.idx + 1]
        ELSE IF crs.status = "raised" THEN Abort(r, crs.err)
        ELSE IF key.status = "raised" THEN Abort(copied, key.err)
        ELSE [copied EXCEPT !.idx = r.idx + 1,
                            !.buckets[KeyIndex(key.key)] = Append(@, got.cols)]

\* The body of `for shp in shp_files` (lines 173-193) for the file f: read,
\* CRS step, the individual copy, and the frame put in its layer's bucket.  An
\* exception of a step leaves the function.
ProcessFile(f, r) ==
    LET got == ReadWithFallback(f.cands)
        crs == CrsStep(f.geo)
        key == LayerKeyFromPath(f.path)
        copied == [r EXCEPT !.copies = Append(r.copies, r.idx)]
    IN  IF got.status = "raised" THEN Abort(r, got.raised)
        ELSE IF crs.status = "raised" THEN Abort(r, crs.err)
        ELSE IF key.status = "raised" THEN Abort(copied, key.err)
        ELSE [copied EXCEPT !.idx = r.idx + 1,
                            !.buckets[KeyIndex(key.key)] = Append(@, got.cols)]

\* lines 196-203: each layer with frames is written as {name}_raw.geojson
MergedDisk(d, buckets) ==
    [k \in 1..Len(LAYER_NAMES) |->
        IF buckets[k] = <<>> THEN d[k] ELSE File(Concat(buckets[k]))]

\* The source files of the listing, by what happens to them.
GoodPath(layerDir, i) == [dirs |-> <<layerDir, <<"0", ToString(i)>> >>, stem |-> N_downloads]
GoodGeo == Geo(NoCrs, FALSE, X_LO + 1, Y_LO + 1)

ShpKinds == {"units", "dirty units", "buildings", "exhausted", "all corrupted",
             "unknown crs", "unclassified"}

ShpOf(kind, i) ==
    CASE kind = "units" ->
            Shp(GoodPath(K_samostoyatelni_obekti, i),
                <<Failed("parse error under utf-8"), Parsed(BadFirst), Parsed(CleanFirst),
                  Parsed(CleanFirst)>>, GoodGeo)
      [] kind = "dirty units" ->
            Shp(GoodPath(K_samostoyatelni_obekti, i),
                <<Parsed(Plain(<<Col("apptype", <<LatinMojibake, CleanText>>)>>)),
                  Parsed(Plain(<<Col("strename", <<NoneVal, CleanText>>),
                                 Col("apptype", <<LatinMojibake, CleanText>>)>>)),
                  Parsed(CleanFirst), Parsed(CleanFirst)>>,
                Geo(TARGET_CRS, FALSE, 23, 42))
      [] kind = "buildings" ->
            Shp(GoodPath(K_sgradi, i),
                <<Parsed(ThreeMarkers), Parsed(CleanFirst), Parsed(CleanFirst),
                  Parsed(CleanFirst)>>, Geo("EPSG:32635", FALSE, 23, 42))
      [] kind = "exhausted" ->
            Shp(GoodPath(K_sgradi, i),
                <<Failed("parse error under utf-8"), Parsed(BadFirst),
                  Failed("parse error under cp1250"), Parsed(NullColThenBad)>>, GoodGeo)
      [] kind = "all corrupted" ->
            Shp(GoodPath(K_sgradi, i),
                <<Parsed(BadFirst), Parsed(BadFirst), Parsed(BadFirst), Parsed(BadFirst)>>,
                GoodGeo)
      [] kind = "unknown crs" ->
            Shp(GoodPath(K_pozemleni_imoti, i),
                <<Parsed(CleanFirst), Parsed(CleanFirst), Parsed(CleanFirst),
                  Parsed(CleanFirst)>>, Geo(NoCrs, FALSE, 23, 42))
      [] kind = "unclassified" ->
            Shp(GoodPath(N_sgrad, i),
                <<Parsed(CleanFirst), Parsed(CleanFirst), Parsed(CleanFirst),
                  Parsed(CleanFirst)>>, GoodGeo)

\* How many source files the listing holds.
MaxFiles == 3

Listings ==
    UNION { { [i \in 1..n |-> ShpOf(kinds[i], i)] : kinds \in [1..n -> ShpKinds] } :
            n \in 0..MaxFiles }

\* etl_dir before the run: no merged layer, or a units layer of an earlier run
OldDisks ==
    { [k \in 1..Len(LAYER_NAMES) |-> IF LAYER_NAMES[k] = "units" THEN u ELSE NoFile] :
        u \in {NoFile, File(Plain(<<Col("apptype", <<LatinMojibake, CleanText>>)>>))} }

RunInit ==
    /\ shp_files \in Listings
    /\ disk \in OldDisks
    /\ run = RunStart
    /\ MojiIdle /\ ReadIdle /\ CrsIdle /\ LayerIdle /\ AttemptIdle /\ FixIdle /\ ClipIdle /\ StatsIdle
    /\ DownstreamIdle

\* lines 166-169: no source file, nothing to do
NoShpFiles ==
    /\ run.pc = "start"
    /\ shp_files = <<>>
    /\ run' = [run EXCEPT !.pc = "done"]
    /\ UNCHANGED <<shp_files, disk, mojiVars, readVars, crsVars, layerVars, attemptVars, fixVars, clipVars, statsVars,
                   downstreamVars>>

\* the loop takes the next source file
NextShp ==
    /\ run.pc \in {"start", "loop"}
    /\ run.idx <= Len(shp_files)
    /\ run' = ProcessFile(shp_files[run.idx], [run EXCEPT !.pc = "loop"])
    /\ UNCHANGED <<shp_files, disk, mojiVars, readVars, crsVars, layerVars, attemptVars, fixVars, clipVars, statsVars,
                   downstreamVars>>

\* the loop is over: the layers are merged and written (lines 196-203)
MergeLayers ==
    /\ run.pc = "loop"
    /\ run.idx > Len(shp_files)
    /\ disk' = MergedDisk(disk, run.buckets)
    /\ run' = [run EXCEPT !.pc = "fix",
                          !.written = {LAYER_NAMES[k] : k \in {x \in 1..Len(LAYER_NAMES) :
                                                                 run.buckets[x] # <<>>}}]
    /\ UNCHANGED <<shp_files, mojiVars, readVars, crsVars, layerVars, attemptVars, fixVars, clipVars, statsVars,
                   downstreamVars>>

UnitsIndex == CHOOSE k \in 1..Len(LAYER_NAMES) : LAYER_NAMES[k] = "units"

\* lines 206-207: the hard-fix pass on units_raw.geojson
HardFixUnits ==
    /\ run.pc = "fix"
    /\ LET fixed == HardFixCyrillic(disk[UnitsIndex])
       IN  disk' = IF fixed.ran THEN [disk EXCEPT ![UnitsIndex] = File(Plain(fixed.cols))]
                   ELSE disk
    /\ run' = [run EXCEPT !.pc = "done", !.hardfix = TRUE]
    /\ UNCHANGED <<shp_files, mojiVars, readVars, crsVars, layerVars, attemptVars, fixVars, clipVars, statsVars,
                   downstreamVars>>

RunNext == NoShpFiles \/ NextShp \/ MergeLayers \/ HardFixUnits

SpecRun == RunInit /\ [][RunNext]_vars

\* a source file that cannot be normalized: every encoding is refused, or it
\* has no CRS and no centroid inside the envelope, or no name of its path
\* holds a layer keyword
ReadFails(f) == \A i \in 1..Len(ENCODINGS) : NotAccepted(f.cands[i])
CrsFails(f) == f.geo.crs = NoCrs /\ ~InEnvelope(f.geo)
LayerFails(f) ==
    /\ \A i \in 1..Len(f.path.dirs) : KeysOf(f.path.dirs[i]) = {}
    /\ KeysOf(f.path.stem) = {}
Fails(f) == ReadFails(f) \/ CrsFails(f) \/ LayerFails(f)

FramesInBuckets == Len(run.buckets[1]) + Len(run.buckets[2]) + Len(run.buckets[3])

\* C6: the run aborts at the first source file that exhausts the encodings,
\* has an unknown CRS or cannot be classified: no file after it is processed,
\* no merged layer is written, the hard-fix pass does not run, and the run
\* does nothing more; a run that gets to the merge had no such file.
C6_AbortsAtFirstFailingFile ==
    /\ run.pc = "aborted" =>
          /\ Fails(shp_files[run.idx])
          /\ \A j \in 1..(run.idx - 1) : ~Fails(shp_files[j])
          /\ FramesInBuckets = run.idx - 1
          /\ \A j \in 1..Len(run.copies) : run.copies[j] <= run.idx
          /\ run.written = {}
          /\ ~run.hardfix
          /\ ~ENABLED RunNext
    /\ (run.written # {} \/ run.hardfix \/ run.pc \in {"fix", "done"}) =>
          \A j \in 1..Len(shp_files) : ~Fails(shp_files[j])
    /\ run.pc = "loop" => \A j \in 1..(run.idx - 1) : ~Fails(shp_files[j])

\* the second of three files exhausted the encodings: the run stopped there,
\* with the first file copied, the third never read and the units layer of an
\* earlier run still as it was
C6_Witness ==
    /\ run.pc = "aborted"
    /\ Len(shp_files) = 3
    /\ run.idx = 2
    /\ ReadFails(shp_files[2])
    /\ ~Fails(shp_files[3])
    /\ run.copies = <<1>>
    /\ disk[UnitsIndex].exists

-----------------------------------------------------------------------------
(* clip_and_clean_vitosha.py: _clip_clean_save                             *)

\* LAYER_CFG[layer_key]["cols"]: the source columns kept and their new names
LayerCols(layer_key) ==
    CASE layer_key = "landparcels" ->
            << <<"cadnum", "cadnum">>, <<"AREA", "area">>, <<"proptype", "proptype">>,
               <<"purpcode", "purpcode">>, <<"purptype", "purptype">>,
               <<"quarname", "quarname">>, <<"strename", "strename">>,
               <<"strnum", "strnum">>, <<"usetype", "usetype">>, <<"ekattefn", "city">> >>
      [] layer_key = "units" ->
            << <<"cadnum", "cadnum">>, <<"AREA", "area">>, <<"apparea", "apparea">>,
               <<"apptype", "apptype">>, <<"strename", "strename">>, <<"strnum", "strnum">> >>
      [] layer_key = "buildings" ->
            << <<"cadnum", "cadnum">>, <<"appcount", "appcount">>, <<"flrcount", "flrcount">>,
               <<"functype", "functype">>, <<"strename", "strename">>, <<"strnum", "strnum">> >>

\* the keys of LAYER_CFG
CFG_KEYS == {"landparcels", "units", "buildings"}

\* set(cols_map.keys())
SourceCols(layer_key) == {LayerCols(layer_key)[i][1] : i \in 1..Len(LayerCols(layer_key))}

\* clipped[list(cols_map.keys()) + ["geometry"]].rename(columns=cols_map)
Renamed(layer_key) ==
    [i \in 1..(Len(LayerCols(layer_key)) + 1) |->
        IF i <= Len(LayerCols(layer_key)) THEN LayerCols(layer_key)[i][2] ELSE "geometry"]

ClipResult(st, e, m, w, c) ==
    [status |-> st, err |-> e, missing |-> m, written |-> w, cols |-> c]

\* mutant: the columns the input lacks are left out of the output without an error
ClipCleanSaveSilentDrop(r) ==
    IF ~r.found THEN ClipResult("raised", "SystemExit: missing raw layer", {}, FALSE, <<>>)
    ELSE ClipResult("ok", "", {}, TRUE,
                    SelectSeq(Renamed(r.layer_key),
                              LAMBDA n : \E i \in 1..Len(LayerCols(r.layer_key)) :
                                            /\ LayerCols(r.layer_key)[i][2] = n
                                            /\ LayerCols(r.layer_key)[i][1] \in r.columns)
                        \o <<"geometry">>)

\* _clip_clean_save(layer_key, cfg, ...): r.found tells whether the raw layer
\* is under etl_dir, r.columns are the columns of the clipped frame
ClipCleanSave(r) ==
    IF ~r.found THEN ClipResult("raised", "SystemExit: missing raw layer", {}, FALSE, <<>>)
    ELSE IF SourceCols(r.layer_key) \ r.columns # {}
         THEN ClipResult("raised", "ValueError: columns missing in source",
                         SourceCols(r.layer_key) \ r.columns, FALSE, <<>>)
         ELSE ClipResult("ok", "", {}, TRUE, Renamed(r.layer_key))

\* The raw layers: any of the layer's source columns may be absent, columns
\* the configuration does not name may be present, the geometry always is.
OtherCols == {"objectid", "area"}

RawLayers ==
    UNION { { [layer_key |-> k, found |-> f, columns |-> have \cup more \cup {"geometry"}] :
                <<f, have, more>> \in
                    BOOLEAN \X (SUBSET SourceCols(k)) \X (SUBSET OtherCols) } :
            k \in CFG_KEYS }

ClipInit ==
    /\ raw \in RawLayers
    /\ cleaned = ClipResult("pending", "", {}, FALSE, <<>>)
    /\ MojiIdle /\ ReadIdle /\ CrsIdle /\ LayerIdle /\ AttemptIdle /\ FixIdle /\ RunIdle /\ StatsIdle
    /\ DownstreamIdle

\* one layer is clipped, cleaned and saved
ClipLayer ==
    /\ cleaned.status = "pending"
    /\ cleaned' = ClipCleanSave(raw)
    /\ UNCHANGED <<raw, mojiVars, readVars, crsVars, layerVars, attemptVars, fixVars, runVars, statsVars,
                   downstreamVars>>

ClipNext == ClipLayer

SpecClip == ClipInit /\ [][ClipNext]_vars

\* the configured source and target column names, as LAYER_CFG lists them
ConfiguredSources(k) ==
    CASE k = "landparcels" ->
            {"cadnum", "AREA", "proptype", "purpcode", "purptype", "quarname", "strename",
             "strnum", "usetype", "ekattefn"}
      [] k = "units" -> {"cadnum", "AREA", "apparea", "apptype", "strename", "strnum"}
      [] k = "buildings" ->
            {"cadnum", "appcount", "flrcount", "functype", "strename", "strnum"}

ConfiguredTargets(k) ==
    CASE k = "landparcels" ->
            {"cadnum", "area", "proptype", "purpcode", "purptype", "quarname", "strename",
             "strnum", "usetype", "city"}
      [] k = "units" -> {"cadnum", "area", "apparea", "apptype", "strename", "strnum"}
      [] k = "buildings" ->
            {"cadnum", "appcount", "flrcount", "functype", "strename", "strnum"}

\* C9: when the clipped layer lacks configured source columns the stage fails
\* with an error naming exactly the missing ones and writes no cleaned file;
\* when it lacks none the cleaned file has exactly the configured target
\* columns and the geometry.
C9_MissingColumnsNamedExactly ==
    (cleaned.status # "pending" /\ raw.found) =>
        LET lacking == {c \in ConfiguredSources(raw.layer_key) : c \notin raw.columns}
        IN  IF lacking # {}
            THEN /\ cleaned.status = "raised"
                 /\ cleaned.err = "ValueError: columns missing in source"
                 /\ cleaned.missing = lacking
                 /\ ~cleaned.written
            ELSE /\ cleaned.status = "ok"
                 /\ cleaned.written
                 /\ {cleaned.cols[i] : i \in 1..Len(cleaned.cols)}
                        = ConfiguredTargets(raw.layer_key) \cup {"geometry"}
                 /\ Len(cleaned.cols) = Cardinality(ConfiguredTargets(raw.layer_key)) + 1

\* a land-parcel layer that has a column "area" but lacks AREA and ekattefn
\* failed, the error naming these two
C9_Witness ==
    /\ cleaned.status = "raised"
    /\ raw.layer_key = "landparcels"
    /\ "area" \in raw.columns
    /\ cleaned.missing = {"AREA", "ekattefn"}
    /\ ~cleaned.written

-----------------------------------------------------------------------------
(* vitosha_analytics.py                                                    *)

\* A cadastral number is the sequence of its characters; NoCadnum is None.
NoCadnum == <<"None">>

\* cadnum.split("."): the pieces between the dots
RECURSIVE SplitDots(_, _)
SplitDots(s, piece) ==
    IF s = <<>> THEN <<piece>>
    ELSE IF Head(s) = "." THEN <<piece>> \o SplitDots(Tail(s), <<>>)
    ELSE SplitDots(Tail(s), Append(piece, Head(s)))

\* ".".join(parts)
RECURSIVE JoinDots(_)
JoinDots(parts) ==
    IF parts = <<>> THEN <<>>
    ELSE IF Len(parts) = 1 THEN parts[1]
    ELSE parts[1] \o <<".">> \o JoinDots(Tail(parts))

\* a cadnum that is not a str: the float NaN of a missing cell
NotStr == <<"nan">>

\* base_cadnum: `not cadnum` holds of None and "", isinstance fails for NaN
base_cadnum(cadnum) ==
    IF cadnum = NoCadnum \/ cadnum = <<>> \/ cadnum = NotStr THEN <<>>
    ELSE JoinDots(Prefix(SplitDots(cadnum, <<>>), 3))

\* An area: a number, None, the float NaN of a missing number, or a text
\* that is not a number.
Num(n) == [kind |-> "num", v |-> n]
NoArea == [kind |-> "None", v |-> 0]
NaN == [kind |-> "nan", v |-> 0]
NotNumber == [kind |-> "text", v |-> 0]

\* the threshold of needed_places
AREA_LIMIT == 90

\* needed_places: float(None) raises TypeError and float("n/a") ValueError,
\* both caught; float(NaN) is NaN, and no comparison with NaN holds
needed_places(area) ==
    IF area.kind = "None" \/ area.kind = "text" THEN 1
    ELSE IF area.kind = "num" /\ area.v < AREA_LIMIT THEN 1
    ELSE 2

\* the lower-case form of a character (Latin and Cyrillic capitals)
LowerChar(c) ==
    IF c >= 65 /\ c <= 90 THEN c + 32
    ELSE IF c >= 1040 /\ c <= 1071 THEN c + 32
    ELSE c

Lower(s) == [i \in 1..Len(s) |-> LowerChar(s[i])]

\* the terms of the two masks
TERM_APART == <<1046, 1080, 1083, 1080, 1097, 1077>>
TERM_GARAGE == <<1043, 1072, 1088, 1072, 1078>>

\* units["apptype"].str.contains(term, na=False, case=False) for one cell
Contains(cell, term) == cell # NoneVal /\ StrIn(Lower(term), Lower(cell))

\* groupby("parcel_id").size() at one parcel
RECURSIVE GroupSize(_, _)
GroupSize(rows, pid) ==
    IF rows = <<>> THEN 0
    ELSE (IF Head(rows).parcel_id = pid THEN 1 ELSE 0) + GroupSize(Tail(rows), pid)

\* groupby("parcel_id")["req"].sum() at one parcel
RECURSIVE GroupReq(_, _)
GroupReq(rows, pid) ==
    IF rows = <<>> THEN 0
    ELSE (IF Head(rows).parcel_id = pid THEN Head(rows).req ELSE 0)
            + GroupReq(Tail(rows), pid)

ParcelIds(rows) == {rows[i].parcel_id : i \in 1..Len(rows)}

WithParcel(us) ==
    [i \in 1..Len(us) |->
        [parcel_id |-> base_cadnum(us[i].cadnum), apptype |-> us[i].apptype,
         area |-> us[i].area, req |-> needed_places(us[i].area)]]

IsApart(r) == Contains(r.apptype, TERM_APART)
IsGarage(r) == Contains(r.apptype, TERM_GARAGE)

StatsRow(pid, na, ng, need, have) ==
    [cadnum |-> pid, num_apartments |-> na, num_garages |-> ng,
     sum_needed_place |-> need, sum_parking_place |-> have]

\* mutant: the places available are apartments plus garages
ParcelStatsSum(us) ==
    LET rows == WithParcel(us)
        apartments == SelectSeq(rows, IsApart)
        garages == SelectSeq(rows, IsGarage)
    IN  { StatsRow(pid, GroupSize(apartments, pid), GroupSize(garages, pid),
                   GroupReq(apartments, pid),
                   GroupSize(apartments, pid) + GroupSize(garages, pid)) :
            pid \in ParcelIds(apartments) \cup ParcelIds(garages) }

\* compute_parcel_stats: one row per parcel that has an apartment or a garage
compute_parcel_stats(us) ==
    LET rows == WithParcel(us)
        apartments == SelectSeq(rows, IsApart)
        garages == SelectSeq(rows, IsGarage)
    IN  { StatsRow(pid, GroupSize(apartments, pid), GroupSize(garages, pid),
                   GroupReq(apartments, pid),
                   Max(GroupSize(apartments, pid), GroupSize(garages, pid))) :
            pid \in ParcelIds(apartments) \cup ParcelIds(garages) }

\* The units of the layers the statistics are computed on.
CAD_A1 == <<"1", ".", "2", ".", "3", ".", "1">>
CAD_A2 == <<"1", ".", "2", ".", "3", ".", "2", ".", "5">>
CAD_B == <<"1", ".", "2", ".", "4", ".", "1">>

Unit(c, t, a) == [cadnum |-> c, apptype |-> t, area |-> a]

UnitSet ==
    { Unit(CAD_A1, <<1046, 1080, 1083, 1080, 1097, 1077>>, Num(50)),
      Unit(CAD_A2, <<1046, 1080, 1083, 1080, 1097, 1077>>, Num(95)),
      Unit(CAD_A1, <<1046, 1080, 1083, 1080, 1097, 1077, 44, 32, 1072, 1087, 46>>, Num(120)),
      Unit(CAD_A1, <<1043, 1072, 1088, 1072, 1078>>, Num(18)),
      Unit(CAD_A2, <<1074, 32, 1078, 1080, 1083, 1080, 1097, 1077>>, Num(90)),
      Unit(CAD_A1, <<1054, 1092, 1080, 1089>>, Num(200)),
      Unit(CAD_B, <<1043, 1040, 1056, 1040, 1046, 32, 1074, 32, 1078, 1080, 1083, 1080, 1097, 1077>>, NoArea),
      Unit(CAD_B, NoneVal, Num(60)),
      Unit(NoCadnum, <<1046, 1080, 1083, 1080, 1097, 1077>>, NaN) }

\* How many units the layer holds.
MaxUnits == 4

StatsInit ==
    /\ units \in SeqsUpTo(UnitSet, MaxUnits)
    /\ stats = [done |-> FALSE, rows |-> {}]
    /\ MojiIdle /\ ReadIdle /\ CrsIdle /\ LayerIdle /\ AttemptIdle /\ FixIdle /\ RunIdle
    /\ ClipIdle /\ DownstreamIdle

\* the statistics of the units layer are computed
ComputeStats ==
    /\ ~stats.done
    /\ stats' = [done |-> TRUE, rows |-> compute_parcel_stats(units)]
    /\ UNCHANGED <<units, mojiVars, readVars, crsVars, layerVars, attemptVars, fixVars, runVars,
                   clipVars, downstreamVars>>

StatsNext == ComputeStats

SpecStats == StatsInit /\ [][StatsNext]_vars

\* the units of a parcel whose type matches a term
UnitsOf(pid, term) ==
    {i \in 1..Len(units) : base_cadnum(units[i].cadnum) = pid /\ Contains(units[i].apptype, term)}

RECURSIVE SumNeeded(_)
SumNeeded(I) ==
    IF I = {} THEN 0
    ELSE LET i == CHOOSE x \in I : TRUE
         IN  needed_places(units[i].area) + SumNeeded(I \ {i})

\* C10: every record of the statistics counts, for its base parcel, the units
\* matching the apartment term and those matching the garage term, sums
\* needed_places over the apartments, and gives max(apartments, garages) as
\* the places available; there is one record for each parcel with such a
\* unit, and a unit matching neither term is counted nowhere.
C10_ParcelAggregates ==
    stats.done =>
        /\ \A r \in stats.rows :
              /\ r.num_apartments = Cardinality(UnitsOf(r.cadnum, TERM_APART))
              /\ r.num_garages = Cardinality(UnitsOf(r.cadnum, TERM_GARAGE))
              /\ r.sum_needed_place = SumNeeded(UnitsOf(r.cadnum, TERM_APART))
              /\ r.sum_parking_place =
                    IF r.num_apartments >= r.num_garages THEN r.num_apartments
                    ELSE r.num_garages
              /\ r.num_apartments + r.num_garages > 0
        /\ \A i \in 1..Len(units) :
              (Contains(units[i].apptype, TERM_APART) \/ Contains(units[i].apptype, TERM_GARAGE))
                 => \E r \in stats.rows : r.cadnum = base_cadnum(units[i].cadnum)
        /\ \A r1, r2 \in stats.rows : r1.cadnum = r2.cadnum => r1 = r2

\* apartments of 50, 95 and 120 and one garage on one parcel gave 3, 1, 5, 3
C10_Witness ==
    /\ stats.done
    /\ Len(units) = 4
    /\ {units[i].area : i \in 1..4} = {Num(50), Num(95), Num(120), Num(18)}
    /\ stats.rows = {StatsRow(<<"1", ".", "2", ".", "3">>, 3, 1, 5, 3)}

-----------------------------------------------------------------------------
(* vitosha_analytics.py: main                                              *)

\* a numeric cell the left merge leaves empty (NaN)
NullNum == -1

\* a feature of the enriched layer
Feature(c, na, ng, have, need) ==
    [cadnum |-> c, num_apartments |-> na, num_garages |-> ng,
     sum_parking_place |-> have, sum_needed_place |-> need]

\* buildings.merge(parcel_stats, on="parcel_id", how="left") for one building:
\* a row for every record of its parcel, and one row of empty cells for none
RECURSIVE MergeRows(_, _)
MergeRows(b, matches) ==
    IF matches = {} THEN <<>>
    ELSE LET r == CHOOSE x \in matches : TRUE
         IN  <<Feature(b.cadnum, r.num_apartments, r.num_garages, r.sum_parking_place,
                       r.sum_needed_place)>> \o MergeRows(b, matches \ {r})

LeftMergeOne(b, parcel_stats) ==
    LET matches == {r \in parcel_stats : r.cadnum = base_cadnum(b.cadnum)}
    IN  IF matches = {} THEN <<Feature(b.cadnum, NullNum, NullNum, NullNum, NullNum)>>
        ELSE MergeRows(b, matches)

RECURSIVE LeftMerge(_, _)
LeftMerge(bs, parcel_stats) ==
    IF bs = <<>> THEN <<>>
    ELSE LeftMergeOne(Head(bs), parcel_stats) \o LeftMerge(Tail(bs), parcel_stats)

\* enriched[col].fillna(0).astype(int) for one cell
FillNa(x) == IF x = NullNum THEN 0 ELSE x

FillRow(f) ==
    Feature(f.cadnum, FillNa(f.num_apartments), FillNa(f.num_garages),
            FillNa(f.sum_parking_place), FillNa(f.sum_needed_place))

\* mutant: the empty cells of the merge are written as they are
MainNoFill(bs, us) == LeftMerge(bs, compute_parcel_stats(us))

\* main: the features written to vitosha_parking_num.geojson
Main(bs, us) ==
    LET merged == LeftMerge(bs, compute_parcel_stats(us))
    IN  [i \in 1..Len(merged) |-> FillRow(merged[i])]

\* The layers main reads.
CAD_C == <<"1", ".", "2", ".", "5", ".", "1">>
Building(c) == [cadnum |-> c]
BuildingSet == {Building(CAD_A1), Building(CAD_B), Building(CAD_C), Building(NoCadnum)}

JoinUnitSet ==
    { Unit(CAD_A1, TERM_APART, Num(50)),
      Unit(CAD_A2, TERM_APART, Num(95)),
      Unit(CAD_A1, TERM_GARAGE, Num(18)),
      Unit(CAD_B, TERM_GARAGE, NoArea),
      Unit(CAD_B, NoneVal, Num(60)),
      Unit(CAD_C, <<1054, 1092, 1080, 1089>>, Num(200)),
      Unit(NoCadnum, TERM_APART, Num(120)) }

\* How many buildings and units the layers hold.
MaxBuildings == 2
MaxJoinUnits == 2

MainInit ==
    /\ layers \in [buildings : SeqsUpTo(BuildingSet, MaxBuildings),
                   units : SeqsUpTo(JoinUnitSet, MaxJoinUnits)]
    /\ enriched = [done |-> FALSE, rows |-> <<>>]
    /\ MojiIdle /\ ReadIdle /\ CrsIdle /\ LayerIdle /\ AttemptIdle /\ FixIdle /\ RunIdle
    /\ ClipIdle /\ StatsIdle
    /\ PlacesIdle /\ CadIdle /\ StreetIdle /\ MapIdle

\* the statistics are computed and joined to the buildings, and the layer is written
RunMain ==
    /\ ~enriched.done
    /\ enriched' = [done |-> TRUE, rows |-> Main(layers.buildings, layers.units)]
    /\ UNCHANGED <<layers, mojiVars, readVars, crsVars, layerVars, attemptVars, fixVars, runVars,
                   clipVars, statsVars, placesVars, cadVars, streetVars, mapVars>>

MainNext == RunMain

SpecMain == MainInit /\ [][MainNext]_vars

\* the units of a layer that share a base parcel identifier, and those of them
\* whose type matches a term
SharingParcel(us, pid) == {i \in 1..Len(us) : base_cadnum(us[i].cadnum) = pid}
Matching(us, pid, term) == {i \in SharingParcel(us, pid) : Contains(us[i].apptype, term)}

RECURSIVE SumPlaces(_, _)
SumPlaces(us, I) ==
    IF I = {} THEN 0
    ELSE LET i == CHOOSE x \in I : TRUE
         IN  needed_places(us[i].area) + SumPlaces(us, I \ {i})

\* C11: the layer written has one feature per building, in the buildings'
\* order; its four numbers are the aggregate of the building's base parcel
\* (apartments, garages, the larger of the two, places needed), and all four
\* are the integer 0, never an empty cell, when no unit shares that parcel.
C11_OneFeaturePerBuilding ==
    enriched.done =>
        /\ Len(enriched.rows) = Len(layers.buildings)
        /\ \A i \in 1..Len(layers.buildings) :
              LET pid == base_cadnum(layers.buildings[i].cadnum)
                  f == enriched.rows[i]
                  apart == Matching(layers.units, pid, TERM_APART)
                  garage == Matching(layers.units, pid, TERM_GARAGE)
              IN  /\ f.cadnum = layers.buildings[i].cadnum
                  /\ f.num_apartments = Cardinality(apart)
                  /\ f.num_garages = Cardinality(garage)
                  /\ f.sum_needed_place = SumPlaces(layers.units, apart)
                  /\ f.sum_parking_place =
                        (IF Cardinality(apart) >= Cardinality(garage)
                         THEN Cardinality(apart) ELSE Cardinality(garage))
                  /\ (SharingParcel(layers.units, pid) = {} =>
                        /\ f.num_apartments = 0 /\ f.num_garages = 0
                        /\ f.sum_parking_place = 0 /\ f.sum_needed_place = 0)

\* a building whose parcel has two apartments and one whose parcel has no
\* unit were written, the first with 2, 0, 2, 3 and the second with zeros
C11_Witness ==
    /\ enriched.done
    /\ Len(layers.buildings) = 2
    /\ enriched.rows[1] = Feature(CAD_A1, 2, 0, 2, 3)
    /\ SharingParcel(layers.units, base_cadnum(layers.buildings[2].cadnum)) = {}
    /\ enriched.rows[2] = Feature(CAD_C, 0, 0, 0, 0)

-----------------------------------------------------------------------------
(* vitosha_analytics.py: needed_places and base_cadnum on their own        *)

\* The areas needed_places is given: whole square metres on both sides of
\* the threshold, and the three kinds of area that are no number.
MaxArea == 180

Areas == {Num(n) : n \in (0 - MaxArea)..MaxArea} \cup {NoArea, NaN, NotNumber}

PlacesInit ==
    /\ areaArg \in Areas
    /\ places = [done |-> FALSE, n |-> 0]
    /\ MojiIdle /\ ReadIdle /\ CrsIdle /\ LayerIdle /\ AttemptIdle /\ FixIdle /\ RunIdle
    /\ ClipIdle /\ StatsIdle
    /\ MainIdle /\ CadIdle /\ StreetIdle /\ MapIdle

\* needed_places(area) is called
NeededPlaces ==
    /\ ~places.done
    /\ places' = [done |-> TRUE, n |-> needed_places(areaArg)]
    /\ UNCHANGED <<areaArg, mojiVars, readVars, crsVars, layerVars, attemptVars, fixVars, runVars,
                   clipVars, statsVars, mainVars, cadVars, streetVars, mapVars>>

PlacesNext == NeededPlaces

SpecPlaces == PlacesInit /\ [][PlacesNext]_vars

\* C12: needed_places answers 1 for an area below 90, 2 for an area of 90 or
\* more, and 1 for every area that is missing or no number (None, NaN, text).
C12_NeededPlacesByArea ==
    places.done =>
        /\ (areaArg.kind = "num" /\ areaArg.v < 90 => places.n = 1)
        /\ (areaArg.kind = "num" /\ areaArg.v >= 90 => places.n = 2)
        /\ (areaArg.kind # "num" => places.n = 1)

\* The identifiers base_cadnum is given: texts of digits and dots, None and NaN.
MaxCadLen == 5
CadChars == {"6", "8", "."}

Cadnums ==
    UNION { [1..n -> CadChars] : n \in 0..MaxCadLen } \cup {NoCadnum, NotStr}

CadInit ==
    /\ cadnumArg \in Cadnums
    /\ parcel = [done |-> FALSE, id |-> <<>>]
    /\ MojiIdle /\ ReadIdle /\ CrsIdle /\ LayerIdle /\ AttemptIdle /\ FixIdle /\ RunIdle
    /\ ClipIdle /\ StatsIdle
    /\ MainIdle /\ PlacesIdle /\ StreetIdle /\ MapIdle

\* base_cadnum(cadnum) is called
BaseCadnum ==
    /\ ~parcel.done
    /\ parcel' = [done |-> TRUE, id |-> base_cadnum(cadnumArg)]
    /\ UNCHANGED <<cadnumArg, mojiVars, readVars, crsVars, layerVars, attemptVars, fixVars,
                   runVars, clipVars, statsVars, mainVars, placesVars, streetVars, mapVars>>

CadNext == BaseCadnum

SpecCad == CadInit /\ [][CadNext]_vars

\* the positions of the dots of a text
Dots(s) == {i \in 1..Len(s) : s[i] = "."}

\* the text before the third dot, or all of it when there are two dots
FirstThree(s) ==
    IF Cardinality(Dots(s)) = 2 THEN s
    ELSE LET third == CHOOSE k \in Dots(s) : Cardinality({d \in Dots(s) : d < k}) = 2
         IN  SubSeq(s, 1, third - 1)

\* C13: base_cadnum gives the first three components of an identifier that
\* has three or more, and the empty text for every other input: the empty
\* text, None, a value that is no text, and a text of fewer than three
\* components.
C13_FirstThreeOrEmpty ==
    parcel.done =>
        IF cadnumArg \notin {NoCadnum, NotStr} /\ Cardinality(Dots(cadnumArg)) >= 2
        THEN parcel.id = FirstThree(cadnumArg)
        ELSE parcel.id = <<>>

-----------------------------------------------------------------------------
(* streetParkingPlace.py                                                   *)

\* Lengths are counted in quarters of a metre, the smallest step of the
\* script's own constants (BUFFER_GAP / 2).
CAR_SLOT == 20                \* 5.0
CAR_LENGTH == 18              \* 4.5
BUFFER_GAP == 2               \* 0.5
MAX_SEGMENT_LENGTH == 400     \* 100
MAX_CAPACITY == 14

\* An edge after the banned zones are cut out of it: the lengths of the
\* parts of its geometry, one part for a LineString.
RECURSIVE TotalLength(_)
TotalLength(parts) == IF parts = <<>> THEN 0 ELSE Head(parts) + TotalLength(Tail(parts))

\* (edges["length_m"] // CAR_SLOT).astype(int)
Capacity(e) == TotalLength(e) \div CAR_SLOT

\* the filter of lines 50-54
Kept(e) ==
    /\ TotalLength(e) <= MAX_SEGMENT_LENGTH
    /\ Capacity(e) <= MAX_CAPACITY
    /\ Capacity(e) >= 1

\* lines 68-76 for slot i of a part
CarSlot(p, length, i) ==
    LET start_dist == i * CAR_SLOT + (BUFFER_GAP \div 2)
        end_dist == start_dist + CAR_LENGTH - BUFFER_GAP
    IN  IF end_dist <= length
        THEN <<[part |-> p, start_dist |-> start_dist, end_dist |-> end_dist]>>
        ELSE <<>>

RECURSIVE SlotsFrom(_, _, _, _)
SlotsFrom(p, length, i, n_cars) ==
    IF i >= n_cars THEN <<>>
    ELSE CarSlot(p, length, i) \o SlotsFrom(p, length, i + 1, n_cars)

\* an unconditional slot, as the mutant places it
RECURSIVE SlotsUnchecked(_, _, _)
SlotsUnchecked(p, i, n_cars) ==
    IF i >= n_cars THEN <<>>
    ELSE <<[part |-> p, start_dist |-> i * CAR_SLOT + (BUFFER_GAP \div 2),
            end_dist |-> i * CAR_SLOT + (BUFFER_GAP \div 2) + CAR_LENGTH - BUFFER_GAP]>>
         \o SlotsUnchecked(p, i + 1, n_cars)

\* mutant: the number of cars is rounded up and the end of the part is not checked
CarSlotsRoundUp(p, length) ==
    SlotsUnchecked(p, 0, (length + CAR_SLOT - 1) \div CAR_SLOT)

\* lines 64-76: the cars of one part
CarSlots(p, length) == SlotsFrom(p, length, 0, length \div CAR_SLOT)

RECURSIVE CarsOfParts(_, _)
CarsOfParts(e, p) ==
    IF p > Len(e) THEN <<>> ELSE CarSlots(p, e[p]) \o CarsOfParts(e, p + 1)

\* what the script keeps of one edge: whether it is written to the street
\* layer, its capacity, and its cars
StreetOf(e) ==
    [done |-> TRUE, kept |-> Kept(e), capacity |-> Capacity(e),
     cars |-> IF Kept(e) THEN CarsOfParts(e, 1) ELSE <<>>]

\* The edges given: a single line of up to MaxLength, or two parts of up to
\* MaxPartLength each.
MaxLength == 420
MaxPartLength == 150

Edges ==
    { <<l>> : l \in 1..MaxLength } \cup
    { <<a, b>> : <<a, b>> \in (1..MaxPartLength) \X (1..MaxPartLength) }

StreetInit ==
    /\ edge \in Edges
    /\ street = [done |-> FALSE, kept |-> FALSE, capacity |-> 0, cars |-> <<>>]
    /\ MojiIdle /\ ReadIdle /\ CrsIdle /\ LayerIdle /\ AttemptIdle /\ FixIdle /\ RunIdle
    /\ ClipIdle /\ StatsIdle
    /\ MainIdle /\ PlacesIdle /\ CadIdle /\ MapIdle

\* the script filters the edge and generates its cars
GenerateCars ==
    /\ ~street.done
    /\ street' = StreetOf(edge)
    /\ UNCHANGED <<edge, mojiVars, readVars, crsVars, layerVars, attemptVars, fixVars, runVars,
                   clipVars, statsVars, mainVars, placesVars, cadVars, mapVars>>

StreetNext == GenerateCars

SpecStreet == StreetInit /\ [][StreetNext]_vars

\* the length of an edge, summed by position
EdgeLength(e) ==
    LET RECURSIVE Sum(_)
        Sum(I) == IF I = {} THEN 0
                  ELSE LET i == CHOOSE x \in I : TRUE IN e[i] + Sum(I \ {i})
    IN  Sum(1..Len(e))

\* C14: an edge is kept exactly when it is at most 100 m long and its
\* capacity floor(length / 5) is between 1 and 14; every car of a kept edge
\* lies within its part (0 <= start < end <= the part's length), two cars of
\* one part do not overlap, and the cars of an edge are at most its capacity,
\* exactly its capacity for a single line. An edge not kept has no car.
C14_SlotsWithinSegments ==
    street.done =>
        LET L == EdgeLength(edge)
            cars == street.cars
        IN  /\ street.capacity * 20 <= L /\ L < (street.capacity + 1) * 20
            /\ street.kept <=> (L <= 400 /\ street.capacity >= 1 /\ street.capacity <= 14)
            /\ (~street.kept => cars = <<>>)
            /\ \A c \in 1..Len(cars) :
                  /\ cars[c].start_dist >= 0
                  /\ cars[c].start_dist < cars[c].end_dist
                  /\ cars[c].end_dist <= edge[cars[c].part]
            /\ \A c, d \in 1..Len(cars) :
                  (c # d /\ cars[c].part = cars[d].part) =>
                      \/ cars[c].end_dist <= cars[d].start_dist
                      \/ cars[d].end_dist <= cars[c].start_dist
            /\ Len(cars) <= street.capacity
            /\ (street.kept /\ Len(edge) = 1 => Len(cars) = street.capacity)

\* an edge of two parts of 7.5 m was kept with capacity 3 and two cars
C14_Witness ==
    /\ street.done /\ street.kept
    /\ edge = <<30, 30>>
    /\ street.capacity = 3
    /\ Len(street.cars) = 2
    /\ street.cars[2] = [part |-> 2, start_dist |-> 1, end_dist |-> 17]

-----------------------------------------------------------------------------
(* map_generator.py                                                        *)

BUFFER_RADIUS == 50
GRID_CELLS == 800

\* A building of vitosha_parking_num.geojson in EPSG:3857: the rectangle of
\* its footprint in metres and its two numbers. A car is its two end points.
Footprint(x0, y0, x1, y1) == [x0 |-> x0, y0 |-> y0, x1 |-> x1, y1 |-> y1]
MapBuilding(fp, ng, need) == [geometry |-> fp, num_garages |-> ng, sum_needed_place |-> need]
Car(ax, ay, bx, by) == [ax |-> ax, ay |-> ay, bx |-> bx, by |-> by]

\* the distance from a point to a rectangle, squared
Gap(lo, hi, v) == IF v < lo THEN lo - v ELSE IF v > hi THEN v - hi ELSE 0
DistSq(fp, px, py) ==
    Gap(fp.x0, fp.x1, px) * Gap(fp.x0, fp.x1, px) + Gap(fp.y0, fp.y1, py) * Gap(fp.y0, fp.y1, py)

\* car.within(building.geometry.buffer(BUFFER_RADIUS)): the buffer of a
\* rectangle is convex, so a segment is within it when its end points are
Within(car, fp) ==
    /\ DistSq(fp, car.ax, car.ay) <= BUFFER_RADIUS * BUFFER_RADIUS
    /\ DistSq(fp, car.bx, car.by) <= BUFFER_RADIUS * BUFFER_RADIUS

\* line 22: cars.within(buf).sum()
CarsInBuffer(b, cars) == Cardinality({c \in cars : Within(c, b.geometry)})

\* mutant: the difference is not clipped at 0
SupplyUnclipped(b, cars) ==
    [cars_in_buffer |-> CarsInBuffer(b, cars),
     total_supply |-> b.num_garages + CarsInBuffer(b, cars),
     parking_deficit |-> b.sum_needed_place - (b.num_garages + CarsInBuffer(b, cars))]

\* lines 21-24 for one building
Supply(b, cars) ==
    LET total_supply == b.num_garages + CarsInBuffer(b, cars)
    IN  [cars_in_buffer |-> CarsInBuffer(b, cars),
         total_supply |-> total_supply,
         parking_deficit |-> Max(b.sum_needed_place - total_supply, 0)]

\* buildings.total_bounds
MinOf(S) == CHOOSE v \in S : \A u \in S : v <= u
MaxOf(S) == CHOOSE v \in S : \A u \in S : v >= u
TotalBounds(bs) ==
    [minx |-> MinOf({bs[k].geometry.x0 : k \in 1..Len(bs)}),
     miny |-> MinOf({bs[k].geometry.y0 : k \in 1..Len(bs)}),
     maxx |-> MaxOf({bs[k].geometry.x1 : k \in 1..Len(bs)}),
     maxy |-> MaxOf({bs[k].geometry.y1 : k \in 1..Len(bs)})]

\* lines 29-33: cell_size = sqrt(width * height / GRID_CELLS), and
\* int(width // cell_size) is the largest c with c * cell_size <= width,
\* that is with c * c * height <= GRID_CELLS * width
RECURSIVE ColsFrom(_, _, _)
ColsFrom(width, height, c) ==
    IF (c + 1) * (c + 1) * height <= GRID_CELLS * width
    THEN ColsFrom(width, height, c + 1)
    ELSE c

Cols(width, height) == ColsFrom(width, height, 0)

\* line 34
GridRows(cols) == (GRID_CELLS \div cols) + 1

\* whether the interval [lo, hi], measured from the grid's origin, meets
\* cell k, [k * cell_size, (k + 1) * cell_size]; with area = width * height,
\* v <= k * cell_size is v * v * GRID_CELLS <= k * k * area
MeetsCell(lo, hi, k, area) ==
    /\ lo * lo * GRID_CELLS <= (k + 1) * (k + 1) * area
    /\ hi * hi * GRID_CELLS >= k * k * area

\* line 49: the cells a building is joined to by sjoin(..., predicate="intersects")
CellsOf(b, tb, cols, rows) ==
    LET area == (tb.maxx - tb.minx) * (tb.maxy - tb.miny)
        is == {i \in 0..(cols - 1) :
                  MeetsCell(b.geometry.x0 - tb.minx, b.geometry.x1 - tb.minx, i, area)}
        js == {j \in 0..(rows - 1) :
                  MeetsCell(b.geometry.y0 - tb.miny, b.geometry.y1 - tb.miny, j, area)}
    IN  is \X js

\* line 50: groupby("index_right")["parking_deficit"].sum() at one cell,
\* over the rows of the join, which hold a building at most once per cell
RECURSIVE CellSum(_, _, _, _)
CellSum(joined, per, cell, k) ==
    IF k > Len(per) THEN 0
    ELSE (IF <<k, cell>> \in joined THEN per[k].parking_deficit ELSE 0)
            + CellSum(joined, per, cell, k + 1)

\* the script up to line 53: the buildings' columns, the grid's size, the
\* rows of the spatial join, and the cells that were given a sum (every
\* other cell of the grid keeps 0)
MapGenerator(bs, cars) ==
    LET per == [k \in 1..Len(bs) |-> Supply(bs[k], cars)]
        tb == TotalBounds(bs)
        cols == Cols(tb.maxx - tb.minx, tb.maxy - tb.miny)
    IN  IF cols = 0
        THEN [done |-> TRUE, raised |-> "ZeroDivisionError", per |-> per, cols |-> 0,
              rows |-> 0, joined |-> {}, cells |-> {}]
        ELSE LET rows == GridRows(cols)
                 joined == UNION { { <<k, cell>> : cell \in CellsOf(bs[k], tb, cols, rows) } :
                                     k \in 1..Len(bs) }
             IN  [done |-> TRUE, raised |-> "None", per |-> per, cols |-> cols, rows |-> rows,
                  joined |-> joined,
                  cells |-> { [cell |-> cell, parking_deficit |-> CellSum(joined, per, cell, 1)] :
                                cell \in {r[2] : r \in joined} }]

\* The buildings and cars the script reads: two houses and a kiosk on one
\* street and a house a block away, with the cars parked along the street.
Footprints ==
    { Footprint(0, 0, 20, 20), Footprint(60, 0, 70, 10), Footprint(69, 0, 70, 1),
      Footprint(0, 100, 20, 120) }

\* garages and places needed: no garage for 3 places, one for 3, one for none
MapBuildings ==
    { MapBuilding(fp, gn[1], gn[2]) :
        <<fp, gn>> \in Footprints \X {<<0, 3>>, <<1, 3>>, <<1, 0>>} }

CarSpots == { Car(30, 5, 34, 5), Car(100, 5, 104, 5) }

\* How many buildings the layer holds.
MaxMapBuildings == 2

MapInit ==
    /\ site \in [buildings : SeqsUpTo(MapBuildings, MaxMapBuildings) \ {<<>>},
                 cars : SUBSET CarSpots]
    /\ heat = [done |-> FALSE, raised |-> "None", per |-> <<>>, cols |-> 0, rows |-> 0,
               joined |-> {}, cells |-> {}]
    /\ MojiIdle /\ ReadIdle /\ CrsIdle /\ LayerIdle /\ AttemptIdle /\ FixIdle /\ RunIdle
    /\ ClipIdle /\ StatsIdle
    /\ MainIdle /\ PlacesIdle /\ CadIdle /\ StreetIdle

\* the script computes the deficits and sums them over the grid
GenerateMap ==
    /\ ~heat.done
    /\ heat' = MapGenerator(site.buildings, site.cars)
    /\ UNCHANGED <<site, mojiVars, readVars, crsVars, layerVars, attemptVars, fixVars, runVars,
                   clipVars, statsVars, mainVars, placesVars, cadVars, streetVars>>

MapNext == GenerateMap

SpecMap == MapInit /\ [][MapNext]_vars

\* the cars that lie within 50 m of a building
CarsNear(b) ==
    {c \in site.cars :
        \A pt \in {<<c.ax, c.ay>>, <<c.bx, c.by>>} : DistSq(b.geometry, pt[1], pt[2]) <= 2500}

\* C15: for every building the total supply is its garages plus the cars
\* within its buffer, and the deficit is max(0, demand - supply): never
\* negative, and 0 whenever the supply covers the demand.
C15_DeficitIsClippedShortfall ==
    heat.done =>
        \A k \in 1..Len(site.buildings) :
            LET b == site.buildings[k]
                supply == b.num_garages + Cardinality(CarsNear(b))
            IN  /\ heat.per[k].total_supply = supply
                /\ heat.per[k].parking_deficit >= 0
                /\ (supply >= b.sum_needed_place => heat.per[k].parking_deficit = 0)
                /\ (supply < b.sum_needed_place =>
                        heat.per[k].parking_deficit = b.sum_needed_place - supply)

\* a building with a garage and two cars nearby needs 3 places and has no
\* deficit, and one with no supply needs 3 and has a deficit of 3
C15_Witness ==
    /\ heat.done
    /\ Len(site.buildings) = 2
    /\ site.buildings[1].sum_needed_place = 3
    /\ heat.per[1] = [cars_in_buffer |-> 2, total_supply |-> 3, parking_deficit |-> 0]
    /\ site.buildings[2].sum_needed_place = 3
    /\ heat.per[2] = [cars_in_buffer |-> 0, total_supply |-> 0, parking_deficit |-> 3]

\* the sum over the cells of the grid, row by row
RECURSIVE SumOver(_)
SumOver(cells) ==
    IF cells = {} THEN 0
    ELSE LET c == CHOOSE x \in cells : TRUE
         IN  c.parking_deficit + SumOver(cells \ {c})

RECURSIVE SumOfRows(_, _)
SumOfRows(cells, js) ==
    IF js = {} THEN 0
    ELSE LET j == CHOOSE x \in js : TRUE
         IN  SumOver({c \in cells : c.cell[2] = j}) + SumOfRows(cells, js \ {j})

SumOfCells(cells) == SumOfRows(cells, {c.cell[2] : c \in cells})

RECURSIVE SumOfDeficits(_)
SumOfDeficits(per) ==
    IF per = <<>> THEN 0 ELSE Head(per).parking_deficit + SumOfDeficits(Tail(per))

\* C16: every building is joined to exactly one cell of the grid, and the
\* deficits of the cells add up to the deficits of the buildings.
C16_GridConservesDeficit ==
    heat.done /\ heat.raised = "None" =>
        /\ \A k \in 1..Len(site.buildings) :
              Cardinality({r \in heat.joined : r[1] = k}) = 1
        /\ SumOfCells(heat.cells) = SumOfDeficits(heat.per)

=============================================================================
